---- MODULE Spec2Model ----
(***************************************************************************)
(* LocalLeadGenAI: the lead pipeline (discovery -> audit -> pitch).        *)
(*                                                                         *)
(* The module models                                                       *)
(*   - the response parsing of services/geminiService.ts (the regular      *)
(*     expression match and JSON.parse) and of utils/validation.ts         *)
(*     (safeJsonParse), over texts that are sequences of lexical tokens;   *)
(*   - the three service functions findLeads, auditBusiness and            *)
(*     generatePitch, in the two variants the repository holds             *)
(*     (services/geminiService.ts parses inline, the refactored service    *)
(*     file goes through safeJsonParse);                                   *)
(*   - the orchestrator hook useLeads (hooks/useLeads.ts): its state, its  *)
(*     callbacks up to their await, and the continuation of each callback  *)
(*     when its AI call resolves or fails.                                 *)
(***************************************************************************)
EXTENDS Integers, Sequences, FiniteSets, TLC

(***************************************************************************)
(* Bounds of the model.                                                    *)
(***************************************************************************)
\* number of requests (performSearch / performAudit / createPitch calls that
\* reach their AI call) one behaviour issues
MaxReq == 3

(***************************************************************************)
(* JavaScript values.                                                      *)
(***************************************************************************)
\* null of a useState<T | null> cell
Null == [null |-> TRUE]

\* undefined: the value of a property a JSON object does not have
Undefined == [t |-> "undefined"]

JNull == [t |-> "null"]

JNum(n) == [t |-> "num", n |-> n]

JStr(s) == [t |-> "str", s |-> s]

JArr(a) == [t |-> "arr", a |-> a]

JObj(o) == [t |-> "obj", o |-> o]

(***************************************************************************)
(* Texts.  A text is a sequence of lexical tokens: the punctuation of      *)
(* JSON, string literals, number literals, null, white space " ", the two   *)
(* lines of a markdown fence (the token "~~~json" is the line that opens a  *)
(* json-tagged fence, "~~~" the line that closes it) and "x", which stands  *)
(* for any other character that is not part of a JSON value (prose).       *)
(* Numbers are kept in hundredths: NumOf("3.2") = 320.                     *)
(***************************************************************************)
KeyToks == {"name", "address", "rating", "reviews", "website"}

StrToks == KeyToks \cup {"sA", "sB", "sUrl", "sGap1", "sGap2"}

NumToks == {"0", "4", "5", "19", "20", "21", "40", "3.2", "3.99", "4.0", "4.01", "4.49", "4.5",
            "4.51", "5.0"}

NumOf(tok) ==
    CASE tok = "0" -> 0
      [] tok = "4" -> 400
      [] tok = "5" -> 500
      [] tok = "19" -> 1900
      [] tok = "20" -> 2000
      [] tok = "21" -> 2100
      [] tok = "40" -> 4000
      [] tok = "3.2" -> 320
      [] tok = "3.99" -> 399
      [] tok = "4.0" -> 400
      [] tok = "4.01" -> 401
      [] tok = "4.49" -> 449
      [] tok = "4.5" -> 450
      [] tok = "4.51" -> 451
      [] tok = "5.0" -> 500

FenceToks == {"~~~json", "~~~"}

Tokens ==
    {"[", "]", "{", "}", ",", ":", "null", "x", " "} \cup FenceToks \cup StrToks \cup NumToks

(***************************************************************************)
(* String.prototype.match with the two patterns the code uses.  Both are   *)
(* greedy and unanchored: the match starts at the first opening bracket    *)
(* and ends at the last closing bracket after it.  NoMatch is JavaScript's *)
(* null result; a match is never empty.                                    *)
(***************************************************************************)
NoMatch == <<>>

FirstIndexOf(text, c) ==
    IF \E i \in 1..Len(text) : text[i] = c
    THEN CHOOSE i \in 1..Len(text) : text[i] = c /\ \A j \in 1..(i - 1) : text[j] # c
    ELSE 0

LastIndexOf(text, c) ==
    IF \E i \in 1..Len(text) : text[i] = c
    THEN CHOOSE i \in 1..Len(text) : text[i] = c /\ \A j \in (i + 1)..Len(text) : text[j] # c
    ELSE 0

MatchSpan(text, open, close) ==
    LET i == FirstIndexOf(text, open)
        j == LastIndexOf(text, close)
    IN  IF i > 0 /\ j > i THEN SubSeq(text, i, j) ELSE NoMatch

\* text.match(/\[[\s\S]*\]/)
MatchArray(text) == MatchSpan(text, "[", "]")

\* text.match(/\{[\s\S]*\}/)
MatchObject(text) == MatchSpan(text, "{", "}")

(***************************************************************************)
(* JSON.parse.  A recursive-descent parser over the tokens; the result is  *)
(* [ok |-> TRUE, val |-> v] or [ok |-> FALSE] (a SyntaxError is thrown).   *)
(* An object is a function from its keys to values, a later duplicate of a *)
(* key replacing the earlier one.                                          *)
(***************************************************************************)
ParseFail == [ok |-> FALSE]

StripSpace(text) == SelectSeq(text, LAMBDA c : c # " ")

RECURSIVE ParseValue(_, _)
RECURSIVE ParseElements(_, _, _)
RECURSIVE ParseMembers(_, _, _)

\* the elements of an array after "[" or after a ","; i is at an element
ParseElements(toks, i, acc) ==
    LET r == ParseValue(toks, i)
    IN  IF ~r.ok THEN ParseFail
        ELSE IF r.next > Len(toks) THEN ParseFail
        ELSE IF toks[r.next] = "]"
             THEN [ok |-> TRUE, val |-> JArr(Append(acc, r.val)), next |-> r.next + 1]
        ELSE IF toks[r.next] = ","
             THEN ParseElements(toks, r.next + 1, Append(acc, r.val))
        ELSE ParseFail

\* the members of an object after "{" or after a ","; i is at a key
ParseMembers(toks, i, acc) ==
    IF i + 2 > Len(toks) \/ toks[i] \notin StrToks \/ toks[i + 1] # ":" THEN ParseFail
    ELSE LET r == ParseValue(toks, i + 2)
             obj == [k \in (DOMAIN acc) \cup {toks[i]} |->
                        IF k = toks[i] THEN r.val ELSE acc[k]]
         IN  IF ~r.ok THEN ParseFail
             ELSE IF r.next > Len(toks) THEN ParseFail
             ELSE IF toks[r.next] = "}"
                  THEN [ok |-> TRUE, val |-> JObj(obj), next |-> r.next + 1]
             ELSE IF toks[r.next] = ","
                  THEN ParseMembers(toks, r.next + 1, obj)
             ELSE ParseFail

ParseValue(toks, i) ==
    IF i > Len(toks) THEN ParseFail
    ELSE IF toks[i] = "null" THEN [ok |-> TRUE, val |-> JNull, next |-> i + 1]
    ELSE IF toks[i] \in NumToks THEN [ok |-> TRUE, val |-> JNum(NumOf(toks[i])), next |-> i + 1]
    ELSE IF toks[i] \in StrToks THEN [ok |-> TRUE, val |-> JStr(toks[i]), next |-> i + 1]
    ELSE IF toks[i] = "["
         THEN IF i + 1 <= Len(toks) /\ toks[i + 1] = "]"
              THEN [ok |-> TRUE, val |-> JArr(<<>>), next |-> i + 2]
              ELSE ParseElements(toks, i + 1, <<>>)
    ELSE IF toks[i] = "{"
         THEN IF i + 1 <= Len(toks) /\ toks[i + 1] = "}"
              THEN [ok |-> TRUE, val |-> JObj(<<>>), next |-> i + 2]
              ELSE ParseMembers(toks, i + 1, <<>>)
    ELSE ParseFail

JSONParse(text) ==
    LET toks == StripSpace(text)
        r == ParseValue(toks, 1)
    IN  IF r.ok /\ r.next = Len(toks) + 1 THEN [ok |-> TRUE, val |-> r.val] ELSE ParseFail

(***************************************************************************)
(* JSON.stringify of a JSON value.  A number is written in its shortest    *)
(* form (4.0 as 4); the members of an object are written in the order of   *)
(* KeyOrder, the order in which the prompt of findLeads names the keys.    *)
(***************************************************************************)
NumLiteral(n) == CHOOSE tok \in NumToks \ {"4.0", "5.0"} : NumOf(tok) = n

KeyOrder == <<"name", "address", "rating", "reviews", "website">>

RECURSIVE JSONStringify(_)
RECURSIVE StringifyElements(_, _)
RECURSIVE StringifyMembers(_, _)

\* the elements of an array from the i-th on, separated by commas
StringifyElements(a, i) ==
    IF i > Len(a) THEN <<>>
    ELSE (IF i > 1 THEN <<",">> ELSE <<>>) \o JSONStringify(a[i]) \o StringifyElements(a, i + 1)

\* the members of an object whose keys are the sequence keys
StringifyMembers(o, keys) ==
    IF keys = <<>> THEN <<>>
    ELSE <<Head(keys), ":">> \o JSONStringify(o[Head(keys)])
         \o (IF Len(keys) > 1 THEN <<",">> ELSE <<>>) \o StringifyMembers(o, Tail(keys))

JSONStringify(v) ==
    CASE v.t = "null" -> <<"null">>
      [] v.t = "num" -> <<NumLiteral(v.n)>>
      [] v.t = "str" -> <<v.s>>
      [] v.t = "arr" -> <<"[">> \o StringifyElements(v.a, 1) \o <<"]">>
      [] v.t = "obj" ->
            <<"{">> \o StringifyMembers(v.o, SelectSeq(KeyOrder, LAMBDA k : k \in DOMAIN v.o))
            \o <<"}">>

(***************************************************************************)
(* The JavaScript operators the services apply to parsed values.           *)
(***************************************************************************)
\* a thrown exception: [ok |-> FALSE, message |-> m]
Throw(m) == [ok |-> FALSE, message |-> m]

\* item.key: reading a property of null throws a TypeError (reported by
\* CanRead); a value that is not an object, or an object without the key,
\* gives undefined
CanRead(item) == item.t # "null" /\ item.t # "undefined"

Prop(item, key) ==
    IF item.t = "obj" /\ key \in DOMAIN item.o THEN item.o[key] ELSE Undefined

\* ToBoolean
Truthy(v) ==
    CASE v.t = "undefined" -> FALSE
      [] v.t = "null" -> FALSE
      [] v.t = "num" -> v.n # 0
      [] v.t = "str" -> v.s # ""
      [] OTHER -> TRUE

\* ToNumber: [nan |-> TRUE] or [nan |-> FALSE, n |-> hundredths]; no string
\* literal of the model is numeric; an array converts through its string
\* form ("" for [], the element's for a singleton)
NaN == [nan |-> TRUE]

RECURSIVE ToNumber(_)
ToNumber(v) ==
    CASE v.t = "num" -> [nan |-> FALSE, n |-> v.n]
      [] v.t = "null" -> [nan |-> FALSE, n |-> 0]
      [] v.t = "arr" ->
            IF Len(v.a) = 0 THEN [nan |-> FALSE, n |-> 0]
            ELSE IF Len(v.a) = 1
                 THEN IF v.a[1].t \in {"null", "undefined"}
                      THEN [nan |-> FALSE, n |-> 0]
                      ELSE IF v.a[1].t \in {"num", "arr"} THEN ToNumber(v.a[1]) ELSE NaN
            ELSE NaN
      [] OTHER -> NaN

\* v < k and v > k for a numeric literal k (hundredths)
Less(v, k) == LET x == ToNumber(v) IN ~x.nan /\ x.n < k

Greater(v, k) == LET x == ToNumber(v) IN ~x.nan /\ x.n > k

\* v || 0
OrZero(v) == IF Truthy(v) THEN v ELSE JNum(0)

(***************************************************************************)
(* utils/validation.ts                                                     *)
(***************************************************************************)
API_KEY_MISSING ==
    "GEMINI_API_KEY is not configured. Please check your environment variables."

\* validateEnvironment testing GEMINI_API_KEY alone
validateEnvironment_geminiOnly(env) ==
    IF ~Truthy(env.GEMINI_API_KEY) THEN Throw(API_KEY_MISSING) ELSE [ok |-> TRUE]

\* validateEnvironment(), with env the value of process.env: a variable is
\* undefined or a string
validateEnvironment(env) ==
    IF ~Truthy(env.API_KEY) /\ ~Truthy(env.GEMINI_API_KEY)
    THEN Throw(API_KEY_MISSING)
    ELSE [ok |-> TRUE]

\* safeJsonParse returning [] in its catch, whatever the fallback
safeJsonParse_emptyOnFailure(text, fallback) ==
    LET jsonMatch == IF MatchArray(text) # NoMatch THEN MatchArray(text) ELSE MatchObject(text)
    IN  IF jsonMatch = NoMatch THEN fallback
        ELSE LET r == JSONParse(jsonMatch)
             IN  IF r.ok THEN r.val ELSE JArr(<<>>)

\* safeJsonParse(text, fallback): the array pattern is tried first and the
\* object pattern only when the array pattern does not match at all; a
\* JSON.parse that throws is caught
safeJsonParse(text, fallback) ==
    LET jsonMatch == IF MatchArray(text) # NoMatch THEN MatchArray(text) ELSE MatchObject(text)
    IN  IF jsonMatch = NoMatch THEN fallback
        ELSE LET r == JSONParse(jsonMatch)
             IN  IF r.ok THEN r.val ELSE fallback

(***************************************************************************)
(* utils/leadAnalyzer.ts and config/constants.ts                           *)
(***************************************************************************)
LOW_REPUTATION_RATING == 400

UNDERVALUED_RATING == 450

UNDERVALUED_MAX_REVIEWS == 2000

DEFAULT_LEAD_COUNT == 12

\* identifyOpportunities with the thresholds included (<= and >=)
identifyOpportunities_inclusive(rating, reviews, hasWebsite) ==
    LET r == ToNumber(rating)
        n == ToNumber(reviews)
    IN  (IF ~r.nan /\ r.n <= LOW_REPUTATION_RATING THEN <<"LOW_REPUTATION">> ELSE <<>>)
        \o (IF ~r.nan /\ r.n >= UNDERVALUED_RATING /\ ~n.nan /\ n.n <= UNDERVALUED_MAX_REVIEWS
            THEN <<"UNDERVALUED">> ELSE <<>>)
        \o (IF ~hasWebsite THEN <<"MISSING_INFO">> ELSE <<>>)

\* identifyOpportunities testing the website before the rating
identifyOpportunities_websiteFirst(rating, reviews, hasWebsite) ==
    (IF ~hasWebsite THEN <<"MISSING_INFO">> ELSE <<>>)
    \o (IF Less(rating, LOW_REPUTATION_RATING) THEN <<"LOW_REPUTATION">> ELSE <<>>)
    \o (IF Greater(rating, UNDERVALUED_RATING) /\ Less(reviews, UNDERVALUED_MAX_REVIEWS)
        THEN <<"UNDERVALUED">> ELSE <<>>)

\* identifyOpportunities(rating, reviews, hasWebsite)
identifyOpportunities(rating, reviews, hasWebsite) ==
    (IF Less(rating, LOW_REPUTATION_RATING) THEN <<"LOW_REPUTATION">> ELSE <<>>)
    \o (IF Greater(rating, UNDERVALUED_RATING) /\ Less(reviews, UNDERVALUED_MAX_REVIEWS)
        THEN <<"UNDERVALUED">> ELSE <<>>)
    \o (IF ~hasWebsite THEN <<"MISSING_INFO">> ELSE <<>>)

\* the decimal digits of a natural number, as a template literal writes it
DigitChars == <<"0", "1", "2", "3", "4", "5", "6", "7", "8", "9">>

RECURSIVE Decimal(_)
Decimal(n) ==
    IF n < 10 THEN <<DigitChars[n + 1]>>
    ELSE Decimal(n \div 10) \o <<DigitChars[(n % 10) + 1]>>

\* generateLeadId without the index: lead-${Date.now()}
generateLeadId_timestampOnly(index, now) == <<"lead-">> \o Decimal(now)

\* generateLeadId(index), with now the value Date.now() returns: the
\* characters of lead-${index}-${Date.now()}
generateLeadId(index, now) == <<"lead-">> \o Decimal(index) \o <<"-">> \o Decimal(now)

(***************************************************************************)
(* The service functions.  The repository holds two variants of the        *)
(* service file: services/geminiService.ts matches and parses inline       *)
(* ("inline"), the refactored file goes through safeJsonParse and the      *)
(* helpers of utils/leadAnalyzer.ts ("safe").  A function that returns     *)
(* gives [ok |-> TRUE, ...]; one that throws gives Throw(message).         *)
(***************************************************************************)
Builds == {"inline", "safe"}

EmptyArrayText == <<"[", "]">>

\* response.text || "[]"
TextOrEmptyArray(text) == IF text = <<>> THEN EmptyArrayText ELSE text

\* the opportunities computed by the callback of rawData.map
leadOpportunities(build, item) ==
    IF build = "inline"
    THEN (IF Less(Prop(item, "rating"), 400) THEN <<"LOW_REPUTATION">> ELSE <<>>)
         \o (IF Greater(Prop(item, "rating"), 450) /\ Less(Prop(item, "reviews"), 2000)
             THEN <<"UNDERVALUED">> ELSE <<>>)
         \o (IF ~Truthy(Prop(item, "website")) THEN <<"MISSING_INFO">> ELSE <<>>)
    ELSE identifyOpportunities(OrZero(Prop(item, "rating")),
                               OrZero(Prop(item, "reviews")),
                               Truthy(Prop(item, "website")))

\* the callback of rawData.map copying rating and reviews as they are
mapLead_rawNumbers(build, item, index, now) ==
    [id |-> generateLeadId(index, now),
     name |-> Prop(item, "name"),
     address |-> Prop(item, "address"),
     rating |-> Prop(item, "rating"),
     reviews |-> Prop(item, "reviews"),
     website |-> Prop(item, "website"),
     opportunities |-> leadOpportunities(build, item)]

\* the callback of rawData.map: one lead from one raw record
mapLead(build, item, index, now) ==
    [id |-> generateLeadId(index, now),
     name |-> Prop(item, "name"),
     address |-> Prop(item, "address"),
     rating |-> OrZero(Prop(item, "rating")),
     reviews |-> OrZero(Prop(item, "reviews")),
     website |-> Prop(item, "website"),
     opportunities |-> leadOpportunities(build, item)]

\* the value of rawData: the parsed response, or the exception of the parse
rawLeadData(build, text) ==
    IF build = "inline"
    THEN LET jsonMatch == MatchArray(TextOrEmptyArray(text))
             r == JSONParse(IF jsonMatch # NoMatch THEN jsonMatch ELSE EmptyArrayText)
         IN  IF r.ok THEN r ELSE Throw("SyntaxError")
    ELSE [ok |-> TRUE, val |-> safeJsonParse(TextOrEmptyArray(text), JArr(<<>>))]

\* findLeads after its AI call has resolved with the given text; now[i] is
\* the clock read for the i-th record
findLeads(build, text, now) ==
    LET raw == rawLeadData(build, text)
    IN  IF ~raw.ok THEN raw
        ELSE IF raw.val.t # "arr" THEN Throw("TypeError: rawData.map is not a function")
        ELSE IF \E i \in 1..Len(raw.val.a) : ~CanRead(raw.val.a[i])
             THEN Throw("TypeError: Cannot read properties of null")
        ELSE [ok |-> TRUE,
              leads |-> [i \in 1..Len(raw.val.a) |->
                            mapLead(build, raw.val.a[i], i - 1, now[i])]]

\* the number of raw records of a response, the length now must have
RawCount(build, text) ==
    LET raw == rawLeadData(build, text)
    IN  IF raw.ok /\ raw.val.t = "arr" THEN Len(raw.val.a) ELSE 0

\* auditBusiness: the sources read from the grounding metadata of the
\* research response.  NoChunks is a response without the metadata,
\* [list |-> chunks] one with it; a chunk is [web |-> Null] or
\* [web |-> [title |-> t, uri |-> u]], "" being a missing title or uri
NoChunks == [none |-> TRUE]

\* auditBusiness copying title and uri without the placeholders
auditSources_noPlaceholder(chunks) ==
    IF chunks = NoChunks THEN <<>>
    ELSE LET web == SelectSeq(chunks.list, LAMBDA c : c.web # Null)
         IN  [i \in 1..Len(web) |-> [title |-> web[i].web.title, uri |-> web[i].web.uri]]

auditSources(chunks) ==
    IF chunks = NoChunks THEN <<>>
    ELSE LET web == SelectSeq(chunks.list, LAMBDA c : c.web # Null)
         IN  [i \in 1..Len(web) |->
                [title |-> IF web[i].web.title = "" THEN "Source" ELSE web[i].web.title,
                 uri |-> IF web[i].web.uri = "" THEN "#" ELSE web[i].web.uri]]

\* auditBusiness: the gaps parsed from the text of the gap-extraction call
auditGaps(build, gapsText) ==
    IF build = "inline"
    THEN LET gapsMatch == MatchArray(TextOrEmptyArray(gapsText))
             r == JSONParse(IF gapsMatch # NoMatch THEN gapsMatch ELSE EmptyArrayText)
         IN  IF r.ok THEN r ELSE Throw("SyntaxError")
    ELSE [ok |-> TRUE, val |-> safeJsonParse(TextOrEmptyArray(gapsText), JArr(<<>>))]

\* auditBusiness: the audit returned once both calls have resolved
auditResult(build, content, chunks, gapsText) ==
    LET g == auditGaps(build, gapsText)
    IN  IF ~g.ok THEN g
        ELSE [ok |-> TRUE,
              audit |-> [content |-> IF content = "" THEN "No audit data available." ELSE content,
                         sources |-> auditSources(chunks),
                         gaps |-> g.val]]

\* generatePitch builds its prompt with audit.gaps.join(", ") before the
\* AI call: a gaps value that is not an array throws there
CanBuildPitchPrompt(a) == a.gaps.t = "arr"

\* generatePitch: the opening lines of the two framing blocks of the prompt
WEBSITE_FRAMING == "PRIMARY FOCUS: Website Launchpad."

AUTOMATION_FRAMING == "PRIMARY FOCUS: AI Automation."

\* generatePitch choosing each block by its own comparison of pitchFocus
pitchPrompt_byName(pitchFocus) ==
    <<IF pitchFocus = "website" THEN "Website Design and Digital Authority"
      ELSE "AI-Driven Business Automation">>
    \o (IF pitchFocus = "website" THEN <<WEBSITE_FRAMING>> ELSE <<>>)
    \o (IF pitchFocus = "automation" THEN <<AUTOMATION_FRAMING>> ELSE <<>>)

\* generatePitch: the parts of the prompt that depend on pitchFocus, in the
\* order of the template: the agency's speciality and the framing block
pitchPrompt(pitchFocus) ==
    LET isWebsiteFocus == pitchFocus = "website"
    IN  <<IF isWebsiteFocus THEN "Website Design and Digital Authority"
          ELSE "AI-Driven Business Automation">>
        \o (IF isWebsiteFocus THEN <<WEBSITE_FRAMING>> ELSE <<AUTOMATION_FRAMING>>)

\* generatePitch returning response.text as it is
pitchResult_raw(text) == text

\* generatePitch after its AI call has resolved: response.text || fallback
pitchResult(text) == IF text = "" THEN "Failed to generate pitch." ELSE text

(***************************************************************************)
(* The inputs of the model.                                                *)
(***************************************************************************)
\* the values Date.now() returns while one result set is built
MaxClock == 1

Clock == 0..MaxClock

\* the clock never runs backwards: the readings of n records are the
\* non-decreasing functions from 1..n to Clock, each given by the records
\* at[v] at which the clock first shows v or more (n + 1: at none)
ClockReadings(n) ==
    {[i \in 1..n |-> Cardinality({v \in 1..MaxClock : at[v] <= i})] :
        at \in [1..MaxClock -> 1..(n + 1)]}

\* the search forms: an empty niche or city, and a complete form
Searches ==
    {[niche |-> n, city |-> c] : n \in {"", "Dentist"}, c \in {"", "Austin, TX"}}

\* the response texts of the discovery call: no text, prose, a bracketed
\* span that is not JSON, a JSON object, an array holding null, an empty
\* array, and an array of one record wrapped in prose
LeadTexts ==
    {<<>>,
     <<"x", "x">>,
     <<"x", "[", "x", "]">>,
     <<"{", "name", ":", "sA", "}">>,
     <<"[", "null", "]">>,
     <<"[", "]">>,
     <<"x", "[", "{", "name", ":", "sA", ",", "rating", ":", "4.51", ",", "reviews", ":", "19", "}",
       "]", "x">>}

\* the response text of an earlier session, whose leads the browser kept
CachedText ==
    <<"[", "{", "name", ":", "sA", ",", "rating", ":", "3.2", ",", "reviews", ":", "40", "}", ",",
      "{", "name", ":", "sB", ",", "website", ":", "sUrl", "}", "]">>

\* the response texts of the gap-extraction call
GapTexts ==
    {<<>>,
     <<"x">>,
     <<"[", "x", "]">>,
     <<"{", "name", ":", "sA", "}">>,
     <<"[", "sGap1", ",", "sGap2", "]">>}

\* the text of the pitch call
ProseTexts == {"", "text"}

\* the responses of the research call: its text and its grounding metadata
ResearchResponses ==
    {[text |-> "", chunks |-> NoChunks],
     [text |-> "text",
      chunks |-> [list |-> <<[web |-> Null], [web |-> [title |-> "", uri |-> "uri"]]>>]]}

\* the message of the error a rejected AI call carries
ErrorMessages == {"", "network error"}

PitchFocuses == {"automation", "website"}

PitchTones == {"Friendly"}

PitchLengths == {"Medium"}

(***************************************************************************)
(* hooks/useLeads.ts: the state of the hook.                               *)
(*                                                                         *)
(* reqs holds the calls of performSearch, performAudit and createPitch     *)
(* that are suspended at an await, by request number (the calls are        *)
(* numbered in the order they are made; issued is the number made so far): *)
(*   kind    "search", "audit" or "pitch"                                  *)
(*   lead    the lead argument (Null for a search)                         *)
(*   ai      the outcomes of the AI calls that have settled, in order      *)
(*   calls   the number of AI calls the request has issued                 *)
(*   sent    the AI calls the request has issued, in order: the tools and  *)
(*           the response schema of each, and what its prompt is built     *)
(*           from                                                          *)
(*   local   the local variables of the suspended service function         *)
(* The other variables record history and no action reads them:            *)
(*   latest[k]   the number of the latest request of kind k (0: none)      *)
(*   outcome[k]  how that request ended ("none": there is none, "pending", *)
(*               "returned", "threw"), with the outcomes of its AI calls   *)
(*               and the number of AI calls it issued                      *)
(*   auditFrom   the request whose result audit holds (0 when null)        *)
(*   pitchFrom   the request whose result pitch holds (0 when null), and   *)
(*               the lead and the audit request it was generated from      *)
(* call holds a utility or service function applied on its own, outside    *)
(* the hook (NoCall while the hook runs): see UtilSpec.                    *)
(***************************************************************************)
VARIABLES build, leads, selectedLead, audit, pitch, loading, error,
          lastPitchConfig, reqs, issued, latest, outcome, auditFrom, pitchFrom, call

vars == <<build, leads, selectedLead, audit, pitch, loading, error,
          lastPitchConfig, reqs, issued, latest, outcome, auditFrom, pitchFrom, call>>

hookState == <<leads, selectedLead, audit, pitch, loading, error, lastPitchConfig>>

history == <<latest, outcome, auditFrom, pitchFrom>>

AUDIT_FAILED == "Audit failed. The business data might be restricted."

PITCH_FAILED == "Pitch generation failed."

LEADS_FAILED == "Failed to fetch leads. Check your connection."

NoAudit == [req |-> 0]

NoPitch == [req |-> 0]

NoCall == [fn |-> "none"]

Ended(how, ai, calls) == [how |-> how, ai |-> ai, calls |-> calls]

Init ==
    /\ build \in Builds
    /\ leads \in {<<>>, findLeads(build, CachedText, <<0, 0>>).leads}
    /\ selectedLead = Null
    /\ audit = Null
    /\ pitch = Null
    /\ loading = [leads |-> FALSE, audit |-> FALSE, pitch |-> FALSE]
    /\ error = Null
    /\ lastPitchConfig = Null
    /\ reqs = <<>>
    /\ issued = 0
    /\ latest = [search |-> 0, audit |-> 0, pitch |-> 0]
    /\ outcome = [search |-> Ended("none", <<>>, 0), audit |-> Ended("none", <<>>, 0),
                  pitch |-> Ended("none", <<>>, 0)]
    /\ auditFrom = NoAudit
    /\ pitchFrom = NoPitch
    /\ call = NoCall

InFlight == DOMAIN reqs

Pending(r, kind, settled) ==
    /\ r \in InFlight
    /\ reqs[r].kind = kind
    /\ Len(reqs[r].ai) = settled

\* a generateContent request: the tools and the response schema of its
\* config, and what its prompt is built from
AICall(tools, responseSchema, from) ==
    [tools |-> tools, responseSchema |-> responseSchema, from |-> from]

\* the one call of findLeads and of generatePitch, and the research call of
\* auditBusiness
FirstCall(kind, lead) ==
    AICall(CASE kind = "search" -> {"googleMaps"}
             [] kind = "audit" -> {"googleSearch"}
             [] kind = "pitch" -> {},
           FALSE, [lead |-> lead])

\* the gap-extraction call of auditBusiness, its prompt built from the text
\* of the research response
GapsCall(text) == AICall({}, TRUE, [text |-> text])

\* a request suspended at its first AI call
NewRequest(kind, lead, local) ==
    [kind |-> kind, lead |-> lead, ai |-> <<>>, calls |-> 1, local |-> local,
     sent |-> <<FirstCall(kind, lead)>>]

\* a callback starts a request of the given kind and suspends
Issue(kind, req) ==
    /\ issued < MaxReq
    /\ issued' = issued + 1
    /\ reqs' = [i \in InFlight \cup {issued + 1} |-> IF i = issued + 1 THEN req ELSE reqs[i]]
    /\ latest' = [latest EXCEPT ![kind] = issued + 1]
    /\ outcome' = [outcome EXCEPT ![kind] = Ended("pending", <<>>, 1)]

\* the last AI call of request r settles (ai: "ok" or "fail"), its service
\* function returns or throws (how), and its callback ends
Settle(r, ai, how) ==
    /\ reqs' = [i \in InFlight \ {r} |-> reqs[i]]
    /\ outcome' = IF latest[reqs[r].kind] = r
                  THEN [outcome EXCEPT ![reqs[r].kind] =
                            Ended(how, Append(reqs[r].ai, ai), reqs[r].calls)]
                  ELSE outcome
    /\ UNCHANGED <<issued, latest>>

(***************************************************************************)
(* hooks/useLeads.ts: the callbacks.  A callback runs without interruption *)
(* up to its await; its continuation runs without interruption when the    *)
(* awaited call settles (the event loop runs one task at a time).          *)
(***************************************************************************)
\* performSearch without its setSelectedLead(null)
performSearch_keepsSelection(search) ==
    IF search.niche = "" \/ search.city = ""
    THEN UNCHANGED vars
    ELSE /\ Issue("search", NewRequest("search", Null, Null))
         /\ loading' = [loading EXCEPT !.leads = TRUE]
         /\ error' = Null
         /\ audit' = Null
         /\ pitch' = Null
         /\ lastPitchConfig' = Null
         /\ auditFrom' = NoAudit
         /\ pitchFrom' = NoPitch
         /\ UNCHANGED <<build, call, leads, selectedLead>>

\* performSearch(search), up to the await of findLeads
performSearch(search) ==
    IF search.niche = "" \/ search.city = ""
    THEN UNCHANGED vars
    ELSE /\ Issue("search", NewRequest("search", Null, Null))
         /\ loading' = [loading EXCEPT !.leads = TRUE]
         /\ error' = Null
         /\ selectedLead' = Null
         /\ audit' = Null
         /\ pitch' = Null
         /\ lastPitchConfig' = Null
         /\ auditFrom' = NoAudit
         /\ pitchFrom' = NoPitch
         /\ UNCHANGED <<build, call, leads>>

\* performSearch resetting the whole loading object in its finally block
FindLeadsResolved_resetsAll(r, text, now) ==
    /\ Pending(r, "search", 0)
    /\ LET res == findLeads(build, text, now)
       IN  IF res.ok
           THEN /\ leads' = res.leads
                /\ error' = error
                /\ Settle(r, "ok", "returned")
           ELSE /\ leads' = leads
                /\ error' = [message |-> res.message]
                /\ Settle(r, "ok", "threw")
    /\ loading' = [leads |-> FALSE, audit |-> FALSE, pitch |-> FALSE]
    /\ UNCHANGED <<build, call, selectedLead, audit, pitch, lastPitchConfig, auditFrom, pitchFrom>>

\* performSearch after findLeads: the AI call resolved with text
FindLeadsResolved(r, text, now) ==
    /\ Pending(r, "search", 0)
    /\ LET res == findLeads(build, text, now)
       IN  IF res.ok
           THEN /\ leads' = res.leads
                /\ error' = error
                /\ Settle(r, "ok", "returned")
           ELSE /\ leads' = leads
                /\ error' = [message |-> res.message]
                /\ Settle(r, "ok", "threw")
    /\ loading' = [loading EXCEPT !.leads = FALSE]
    /\ UNCHANGED <<build, call, selectedLead, audit, pitch, lastPitchConfig, auditFrom, pitchFrom>>

\* findLeads catching the rejection and returning []
FindLeadsRejected_asEmpty(r, message) ==
    /\ Pending(r, "search", 0)
    /\ leads' = <<>>
    /\ loading' = [loading EXCEPT !.leads = FALSE]
    /\ Settle(r, "fail", "returned")
    /\ UNCHANGED <<build, call, selectedLead, audit, pitch, error, lastPitchConfig, auditFrom, pitchFrom>>

\* performSearch after findLeads: the AI call was rejected
FindLeadsRejected(r, message) ==
    /\ Pending(r, "search", 0)
    /\ error' = [message |-> IF message = "" THEN LEADS_FAILED ELSE message]
    /\ loading' = [loading EXCEPT !.leads = FALSE]
    /\ Settle(r, "fail", "threw")
    /\ UNCHANGED <<build, call, leads, selectedLead, audit, pitch, lastPitchConfig, auditFrom, pitchFrom>>

\* performAudit without its setPitch(null) and setLastPitchConfig(null)
performAudit_keepsPitch(lead) ==
    /\ Issue("audit", NewRequest("audit", lead, Null))
    /\ selectedLead' = lead
    /\ audit' = Null
    /\ loading' = [loading EXCEPT !.audit = TRUE]
    /\ error' = Null
    /\ auditFrom' = NoAudit
    /\ UNCHANGED <<build, call, leads, pitch, lastPitchConfig, pitchFrom>>

\* performAudit(lead), up to the await of auditBusiness, which runs up to
\* its first AI call
performAudit(lead) ==
    /\ Issue("audit", NewRequest("audit", lead, Null))
    /\ selectedLead' = lead
    /\ audit' = Null
    /\ pitch' = Null
    /\ lastPitchConfig' = Null
    /\ loading' = [loading EXCEPT !.audit = TRUE]
    /\ error' = Null
    /\ auditFrom' = NoAudit
    /\ pitchFrom' = NoPitch
    /\ UNCHANGED <<build, call, leads>>

\* the leads the page offers to performAudit: the cards of the list and the
\* refresh button of the selected lead
AuditTargets ==
    {leads[i] : i \in 1..Len(leads)} \cup (IF selectedLead = Null THEN {} ELSE {selectedLead})

\* auditBusiness issuing its second call with the web-search tool as well
AuditResearchResolved_withSearchTool(r, response) ==
    /\ Pending(r, "audit", 0)
    /\ reqs' = [reqs EXCEPT ![r] = [@ EXCEPT !.ai = <<"ok">>, !.calls = 2,
                                             !.local = [content |-> response.text,
                                                        chunks |-> response.chunks],
                                             !.sent = Append(@, AICall({"googleSearch"}, TRUE,
                                                                       [text |-> response.text]))]]
    /\ UNCHANGED <<build, call, hookState, issued, history>>

\* auditBusiness: the research call resolved; the gap-extraction call is
\* issued
AuditResearchResolved(r, response) ==
    /\ Pending(r, "audit", 0)
    /\ reqs' = [reqs EXCEPT ![r] = [@ EXCEPT !.ai = <<"ok">>, !.calls = 2,
                                             !.local = [content |-> response.text,
                                                        chunks |-> response.chunks],
                                             !.sent = Append(@, GapsCall(response.text))]]
    /\ UNCHANGED <<build, call, hookState, issued, history>>

\* the catch of performAudit also dropping the selection
AuditThrew_clearsSelection(r, ai) ==
    /\ error' = [message |-> AUDIT_FAILED]
    /\ loading' = [loading EXCEPT !.audit = FALSE]
    /\ selectedLead' = Null
    /\ Settle(r, ai, "threw")
    /\ UNCHANGED <<build, call, leads, audit, pitch, lastPitchConfig, auditFrom, pitchFrom>>

\* the catch and finally of performAudit
AuditThrew(r, ai) ==
    /\ error' = [message |-> AUDIT_FAILED]
    /\ loading' = [loading EXCEPT !.audit = FALSE]
    /\ Settle(r, ai, "threw")
    /\ UNCHANGED <<build, call, leads, selectedLead, audit, pitch, lastPitchConfig, auditFrom, pitchFrom>>

\* auditBusiness catching the rejection of the research call and going on
\* to the gap-extraction call with an empty research response
AuditResearchRejected_continues(r) ==
    /\ Pending(r, "audit", 0)
    /\ reqs' = [reqs EXCEPT ![r] = [@ EXCEPT !.ai = <<"fail">>, !.calls = 2,
                                             !.local = [content |-> "", chunks |-> NoChunks],
                                             !.sent = Append(@, GapsCall(""))]]
    /\ UNCHANGED <<build, call, hookState, issued, history>>

\* auditBusiness: the research call was rejected
AuditResearchRejected(r) ==
    /\ Pending(r, "audit", 0)
    /\ AuditThrew(r, "fail")

\* auditBusiness: the gap-extraction call resolved; performAudit continues
AuditGapsResolved(r, gapsText) ==
    /\ Pending(r, "audit", 1)
    /\ LET res == auditResult(build, reqs[r].local.content, reqs[r].local.chunks, gapsText)
       IN  IF res.ok
           THEN /\ audit' = res.audit
                /\ auditFrom' = [req |-> r, lead |-> reqs[r].lead]
                /\ loading' = [loading EXCEPT !.audit = FALSE]
                /\ Settle(r, "ok", "returned")
                /\ UNCHANGED <<build, call, leads, selectedLead, pitch, error, lastPitchConfig, pitchFrom>>
           ELSE AuditThrew(r, "ok")

\* auditBusiness catching the rejection of the gap-extraction call and
\* returning the audit with gaps = []
AuditGapsRejected_tolerant(r) ==
    /\ Pending(r, "audit", 1)
    /\ audit' = [content |-> IF reqs[r].local.content = "" THEN "No audit data available."
                              ELSE reqs[r].local.content,
                  sources |-> auditSources(reqs[r].local.chunks),
                  gaps |-> JArr(<<>>)]
    /\ auditFrom' = [req |-> r, lead |-> reqs[r].lead]
    /\ loading' = [loading EXCEPT !.audit = FALSE]
    /\ Settle(r, "fail", "returned")
    /\ UNCHANGED <<build, call, leads, selectedLead, pitch, error, lastPitchConfig, pitchFrom>>

\* auditBusiness: the gap-extraction call was rejected
AuditGapsRejected(r) ==
    /\ Pending(r, "audit", 1)
    /\ AuditThrew(r, "fail")

\* createPitch(pitchFocus, tone, length), up to the await of generatePitch,
\* which runs up to its AI call or throws while it builds the prompt
createPitch(pitchFocus, tone, length) ==
    IF selectedLead = Null \/ audit = Null
    THEN UNCHANGED vars
    ELSE /\ lastPitchConfig' = [focus |-> pitchFocus, tone |-> tone, length |-> length]
         /\ IF CanBuildPitchPrompt(audit)
            THEN /\ Issue("pitch", NewRequest("pitch", selectedLead,
                                   [audit |-> audit, from |-> auditFrom, focus |-> pitchFocus,
                                    tone |-> tone, length |-> length]))
                 /\ loading' = [loading EXCEPT !.pitch = TRUE]
                 /\ error' = Null
            ELSE /\ issued < MaxReq
                 /\ issued' = issued + 1
                 /\ latest' = [latest EXCEPT !.pitch = issued + 1]
                 /\ outcome' = [outcome EXCEPT !.pitch = Ended("threw", <<>>, 0)]
                 /\ loading' = [loading EXCEPT !.pitch = FALSE]
                 /\ error' = [message |-> PITCH_FAILED]
                 /\ UNCHANGED reqs
         /\ UNCHANGED <<build, call, leads, selectedLead, audit, pitch, auditFrom, pitchFrom>>

\* regeneratePitch falling back to a default configuration
regeneratePitch_withDefault ==
    IF lastPitchConfig # Null
    THEN createPitch(lastPitchConfig.focus, lastPitchConfig.tone, lastPitchConfig.length)
    ELSE createPitch("automation", "Friendly", "Medium")

\* regeneratePitch()
regeneratePitch ==
    IF lastPitchConfig # Null
    THEN createPitch(lastPitchConfig.focus, lastPitchConfig.tone, lastPitchConfig.length)
    ELSE UNCHANGED vars

\* createPitch after generatePitch: the AI call resolved with text
PitchResolved(r, text) ==
    /\ Pending(r, "pitch", 0)
    /\ pitch' = [text |-> pitchResult(text)]
    /\ pitchFrom' = [req |-> r, lead |-> reqs[r].lead, audit |-> reqs[r].local.from]
    /\ loading' = [loading EXCEPT !.pitch = FALSE]
    /\ Settle(r, "ok", "returned")
    /\ UNCHANGED <<build, call, leads, selectedLead, audit, error, lastPitchConfig, auditFrom>>

\* createPitch without its finally block
PitchRejected_keepsLoading(r) ==
    /\ Pending(r, "pitch", 0)
    /\ error' = [message |-> PITCH_FAILED]
    /\ Settle(r, "fail", "threw")
    /\ UNCHANGED <<build, call, leads, selectedLead, audit, pitch, loading, lastPitchConfig,
                   auditFrom, pitchFrom>>

\* createPitch after generatePitch: the AI call was rejected
PitchRejected(r) ==
    /\ Pending(r, "pitch", 0)
    /\ error' = [message |-> PITCH_FAILED]
    /\ loading' = [loading EXCEPT !.pitch = FALSE]
    /\ Settle(r, "fail", "threw")
    /\ UNCHANGED <<build, call, leads, selectedLead, audit, pitch, lastPitchConfig, auditFrom, pitchFrom>>

\* clearSelectedLead()
clearSelectedLead ==
    /\ selectedLead' = Null
    /\ audit' = Null
    /\ pitch' = Null
    /\ lastPitchConfig' = Null
    /\ error' = Null
    /\ auditFrom' = NoAudit
    /\ pitchFrom' = NoPitch
    /\ UNCHANGED <<build, call, leads, loading, reqs, issued, latest, outcome>>

\* setError(null), the close button of the error toast
dismissError ==
    /\ error' = Null
    /\ UNCHANGED <<build, call, leads, selectedLead, audit, pitch, loading, lastPitchConfig, reqs,
                   issued, history>>

Requests == 1..MaxReq

Next ==
    \/ \E search \in Searches : performSearch(search)
    \/ \E r \in Requests, text \in LeadTexts :
            \E now \in ClockReadings(RawCount(build, text)) : FindLeadsResolved(r, text, now)
    \/ \E r \in Requests, message \in ErrorMessages : FindLeadsRejected(r, message)
    \/ \E lead \in AuditTargets : performAudit(lead)
    \/ \E r \in Requests, response \in ResearchResponses : AuditResearchResolved(r, response)
    \/ \E r \in Requests : AuditResearchRejected(r)
    \/ \E r \in Requests, gapsText \in GapTexts : AuditGapsResolved(r, gapsText)
    \/ \E r \in Requests : AuditGapsRejected(r)
    \/ \E focus \in PitchFocuses, tone \in PitchTones, length \in PitchLengths :
            createPitch(focus, tone, length)
    \/ regeneratePitch
    \/ \E r \in Requests, text \in ProseTexts : PitchResolved(r, text)
    \/ \E r \in Requests : PitchRejected(r)
    \/ clearSelectedLead
    \/ dismissError

Spec == Init /\ [][Next]_vars

\* request r has left its await
Resumed(r) == reqs' = [i \in InFlight \ {r} |-> reqs[i]]

\* the pending AI call of request r settles, resolved or rejected, and the
\* continuation of the awaiting callback runs
CallSettles(r) ==
    /\ r \in InFlight
    /\ \/ /\ reqs[r].kind = "search"
          /\ Resumed(r)
          /\ \/ \E message \in ErrorMessages : FindLeadsRejected(r, message)
             \/ \E text \in LeadTexts :
                    \E now \in ClockReadings(RawCount(build, text)) :
                        FindLeadsResolved(r, text, now)
       \/ /\ reqs[r].kind = "audit"
          /\ reqs[r].ai = <<>>
          /\ \/ AuditResearchRejected(r)
             \/ \E response \in ResearchResponses : AuditResearchResolved(r, response)
       \/ /\ reqs[r].kind = "audit"
          /\ reqs[r].ai # <<>>
          /\ Resumed(r)
          /\ \/ AuditGapsRejected(r)
             \/ \E gapsText \in GapTexts : AuditGapsResolved(r, gapsText)
       \/ /\ reqs[r].kind = "pitch"
          /\ Resumed(r)
          /\ \/ PitchRejected(r)
             \/ \E text \in ProseTexts : PitchResolved(r, text)

\* the hook when every issued AI call eventually resolves or fails: a
\* settled promise schedules the continuation of its await, and the event
\* loop runs it
FairSpec == Spec /\ \A r \in Requests : WF_vars(CallSettles(r))

(***************************************************************************)
(* The functions of utils/validation.ts and utils/leadAnalyzer.ts, and     *)
(* findLeads, applied on their own to arguments drawn from bounded sets.   *)
(* call holds one application: the function, its arguments and, once the   *)
(* function has been applied, its result.  The functions of utils/ exist   *)
(* in the refactored variant, which is the one that calls them.            *)
(***************************************************************************)
\* the length of the texts built from TextAlphabet
MaxTextLen == 4

\* the elements of an array, at each level of nesting
MaxElems == 2

\* the records of a response of the discovery call; the prompt asks for
\* DEFAULT_LEAD_COUNT of them
MaxRecords == 13

NotApplied == [applied |-> FALSE]

SeqsUpTo(S, n) == UNION {[1..k -> S] : k \in 0..n}

\* every text of at most MaxTextLen characters over brackets, braces, prose
\* and a number
TextAlphabet == {"[", "]", "{", "}", "x", "5"}

ShortTexts == SeqsUpTo(TextAlphabet, MaxTextLen)

\* JSON values: scalars, arrays and objects of scalars, and arrays and
\* objects of those
JsonScalars == {JNum(500), JStr("sA")}

ObjectKeys == {"name", "rating"}

ArraysOf(S) == {JArr(a) : a \in SeqsUpTo(S, MaxElems)}

ObjectsOf(S) == UNION {{JObj(o) : o \in [K -> S]} : K \in SUBSET ObjectKeys}

FlatValues == ArraysOf(JsonScalars) \cup ObjectsOf(JsonScalars)

NestedValues ==
    ArraysOf(JsonScalars \cup FlatValues) \cup ObjectsOf(JsonScalars \cup FlatValues)

\* the fallback argument of safeJsonParse
Fallbacks == {JArr(<<>>), JNull}

\* a JSON value in a json-tagged markdown fence, with prose before and after
FencedText(before, v, after) ==
    before \o <<"~~~json">> \o JSONStringify(v) \o <<"~~~">> \o after

ProseBefore == {<<>>, <<"x">>, <<"x", "[", "x", "]", "x">>}

ProseAfter == {<<>>, <<"x">>}

\* the applications of safeJsonParse: to a short text, to JSON.stringify(x)
\* and to a fenced x
ParseCall(text, fallback, from) ==
    [fn |-> "safeJsonParse", text |-> text, fallback |-> fallback, from |-> from,
     result |-> NotApplied]

IsParseCall(c) ==
    \/ \E text \in ShortTexts, fallback \in Fallbacks :
            c = ParseCall(text, fallback, [kind |-> "text"])
    \/ \E x \in NestedValues, fallback \in Fallbacks :
            c = ParseCall(JSONStringify(x), fallback, [kind |-> "stringify", x |-> x])
    \/ \E before \in ProseBefore, after \in ProseAfter :
            \E x \in NestedValues :
                c = ParseCall(FencedText(before, x, after), JArr(<<>>), [kind |-> "fence", x |-> x])

\* the arguments of identifyOpportunities: ratings and review counts at and
\* around the thresholds
Ratings == {JNum(n) : n \in {0, 320, 399, 400, 401, 449, 450, 451, 500}}

ReviewCounts == {JNum(n) : n \in {0, 1900, 2000, 2100, 4000}}

\* the values of a variable of process.env: not set, empty, set
EnvValues == {Undefined, JStr(""), JStr("key")}

EnvCalls ==
    {[fn |-> "validateEnvironment", env |-> [API_KEY |-> a, GEMINI_API_KEY |-> g],
      result |-> NotApplied] : a \in EnvValues, g \in EnvValues}

ClassifyCalls ==
    {[fn |-> "identifyOpportunities", rating |-> rating, reviews |-> reviews,
      hasWebsite |-> hasWebsite, result |-> NotApplied] :
        rating \in Ratings, reviews \in ReviewCounts, hasWebsite \in BOOLEAN}

\* the raw records of a response of the discovery call: complete, without
\* rating, reviews and website, without rating and reviews, without
\* website, with nulls, without reviews, and empty
SampleRecords ==
    {<<"{", "name", ":", "sA", ",", "rating", ":", "3.2", ",", "reviews", ":", "40", ",",
       "website", ":", "sUrl", "}">>,
     <<"{", "name", ":", "sB", "}">>,
     <<"{", "name", ":", "sB", ",", "website", ":", "sUrl", "}">>,
     <<"{", "rating", ":", "4.51", ",", "reviews", ":", "19", "}">>,
     <<"{", "rating", ":", "null", ",", "reviews", ":", "0", ",", "website", ":", "null", "}">>,
     <<"{", "rating", ":", "4.51", ",", "website", ":", "sUrl", "}">>,
     <<"{", "}">>}

RECURSIVE JoinRecords(_)
JoinRecords(records) ==
    IF records = <<>> THEN <<>>
    ELSE Head(records) \o (IF Len(records) > 1 THEN <<",">> ELSE <<>>)
         \o JoinRecords(Tail(records))

ArrayText(records) == <<"[">> \o JoinRecords(records) \o <<"]">>

\* the response texts: those of LeadTexts, the arrays of at most two sample
\* records, and the arrays of up to MaxRecords empty records
DiscoveryTexts ==
    LeadTexts
    \cup {ArrayText(records) : records \in SeqsUpTo(SampleRecords, 2)}
    \cup {ArrayText([i \in 1..k |-> <<"{", "}">>]) : k \in 3..MaxRecords}

FindLeadsCalls(b) ==
    UNION {{[fn |-> "findLeads", text |-> text, now |-> now, result |-> NotApplied] :
                now \in ClockReadings(RawCount(b, text))} : text \in DiscoveryTexts}

\* the focus values createPitch may be handed: the two the buttons pass, and
\* strings a stored preference may hold
FocusValues == {"automation", "website", "Website", ""}

PromptCalls == {[fn |-> "pitchPrompt", pitchFocus |-> f, result |-> NotApplied] : f \in FocusValues}

\* the grounding metadata of a research response: none, or at most
\* MaxChunks chunks, each without web data or with a title and a uri that
\* may be missing
MaxChunks == 3

GroundingChunks ==
    {[web |-> Null]} \cup {[web |-> [title |-> t, uri |-> u]] : t \in {"", "Title"}, u \in {"", "uri"}}

SourcesCalls ==
    {[fn |-> "auditSources", chunks |-> c, result |-> NotApplied] :
        c \in {NoChunks} \cup {[list |-> l] : l \in SeqsUpTo(GroundingChunks, MaxChunks)}}

UtilInit ==
    /\ build \in Builds
    /\ leads = <<>>
    /\ selectedLead = Null
    /\ audit = Null
    /\ pitch = Null
    /\ loading = [leads |-> FALSE, audit |-> FALSE, pitch |-> FALSE]
    /\ error = Null
    /\ lastPitchConfig = Null
    /\ reqs = <<>>
    /\ issued = 0
    /\ latest = [search |-> 0, audit |-> 0, pitch |-> 0]
    /\ outcome = [search |-> Ended("none", <<>>, 0), audit |-> Ended("none", <<>>, 0),
                  pitch |-> Ended("none", <<>>, 0)]
    /\ auditFrom = NoAudit
    /\ pitchFrom = NoPitch
    /\ \/ call \in FindLeadsCalls(build)
       \/ build = "safe" /\ call \in ClassifyCalls
       \/ build = "safe" /\ call \in EnvCalls
       \/ build = "safe" /\ call \in PromptCalls
       \/ build = "safe" /\ call \in SourcesCalls
       \/ build = "safe" /\ IsParseCall(call)

Applied == call # NoCall /\ call.result # NotApplied

\* safeJsonParse(text, fallback)
Call_safeJsonParse ==
    /\ call.fn = "safeJsonParse"
    /\ call.result = NotApplied
    /\ call' = [call EXCEPT !.result = safeJsonParse(call.text, call.fallback)]
    /\ UNCHANGED <<build, hookState, reqs, issued, history>>

\* identifyOpportunities(rating, reviews, hasWebsite)
Call_identifyOpportunities ==
    /\ call.fn = "identifyOpportunities"
    /\ call.result = NotApplied
    /\ call' = [call EXCEPT !.result =
                    [tags |-> identifyOpportunities(call.rating, call.reviews, call.hasWebsite)]]
    /\ UNCHANGED <<build, hookState, reqs, issued, history>>

\* findLeads, from the moment its AI call has resolved with text
Call_findLeads ==
    /\ call.fn = "findLeads"
    /\ call.result = NotApplied
    /\ call' = [call EXCEPT !.result = findLeads(build, call.text, call.now)]
    /\ UNCHANGED <<build, hookState, reqs, issued, history>>

\* validateEnvironment()
Call_validateEnvironment ==
    /\ call.fn = "validateEnvironment"
    /\ call.result = NotApplied
    /\ call' = [call EXCEPT !.result = validateEnvironment(call.env)]
    /\ UNCHANGED <<build, hookState, reqs, issued, history>>

\* generatePitch, up to its AI call
Call_pitchPrompt ==
    /\ call.fn = "pitchPrompt"
    /\ call.result = NotApplied
    /\ call' = [call EXCEPT !.result = [prompt |-> pitchPrompt(call.pitchFocus)]]
    /\ UNCHANGED <<build, hookState, reqs, issued, history>>

\* auditBusiness: the sources computed from the research response
Call_auditSources ==
    /\ call.fn = "auditSources"
    /\ call.result = NotApplied
    /\ call' = [call EXCEPT !.result = [sources |-> auditSources(call.chunks)]]
    /\ UNCHANGED <<build, hookState, reqs, issued, history>>

UtilNext ==
    \/ Call_validateEnvironment
    \/ Call_auditSources
    \/ Call_pitchPrompt
    \/ Call_safeJsonParse
    \/ Call_identifyOpportunities
    \/ Call_findLeads

UtilSpec == UtilInit /\ [][UtilNext]_vars

(***************************************************************************)
(* Properties.                                                             *)
(***************************************************************************)
AuditsInFlight == {r \in InFlight : reqs[r].kind = "audit"}

PitchesInFlight == {r \in InFlight : reqs[r].kind = "pitch"}

\* C1: stale-audit discard.  Once the latest audit request (for lead B) has
\* returned and no older audit request is still in flight, the displayed
\* audit is the result of the latest request, never the result of an older
\* request for another lead A.  (The claim is about two different leads: a
\* result of an older request for the same lead is not counted against it.)
C1_StaleAuditDiscard ==
    (/\ outcome.audit.how = "returned"
     /\ AuditsInFlight = {}
     /\ selectedLead # Null)
    => (/\ audit # Null
        /\ auditFrom.req = latest.audit \/ auditFrom.lead = selectedLead)

\* C2: a displayed audit was produced for the lead that is selected now:
\* never for another lead and never while no lead is selected.
C2_AuditOfSelectedLead ==
    audit # Null => (selectedLead # Null /\ auditFrom.lead = selectedLead)

\* C3: stale-pitch discard.  While a lead is selected, a displayed pitch
\* was generated for that lead, never for a lead selected earlier.
C3_StalePitchDiscard ==
    (pitch # Null /\ selectedLead # Null) => pitchFrom.lead = selectedLead

\* C4: forward invalidation.  The step in which a search is issued sets
\* selectedLead, audit and pitch to null and marks discovery in flight; the
\* leads list is untouched in that step, the findLeads call still pending.
C4_ForwardInvalidation ==
    [][latest'.search # latest.search =>
          /\ selectedLead' = Null
          /\ audit' = Null
          /\ pitch' = Null
          /\ loading'.leads
          /\ leads' = leads
          /\ latest'.search \in DOMAIN reqs'
          /\ reqs'[latest'.search].kind = "search"
          /\ reqs'[latest'.search].ai = <<>>]_vars

\* C4 happens: a search is in flight that was issued after a pitch had been
\* displayed for an audited lead
C4_Witness ==
    /\ latest.search \in InFlight
    /\ latest.pitch > 0
    /\ latest.audit > 0
    /\ latest.search > latest.pitch
    /\ outcome.pitch.how = "returned"
    /\ PitchesInFlight = {}
    /\ selectedLead = Null
    /\ audit = Null
    /\ pitch = Null
    /\ loading.leads

\* C5: a new search invalidates what is in flight.  As long as no lead has
\* been selected since the latest search started, audit and pitch are null.
C5_SearchInvalidatesInFlight ==
    (latest.search > 0 /\ latest.search > latest.audit)
    => (audit = Null /\ pitch = Null)

\* C6 as stated: when the gap-extraction call of an audit is rejected, the
\* audit is still displayed, with gaps = [], and no error is recorded.
C6_FailedPhase2Tolerated ==
    [][\A r \in Requests :
          AuditGapsRejected(r) =>
              /\ audit' # Null
              /\ audit'.gaps = JArr(<<>>)
              /\ auditFrom'.req = r
              /\ error' = error]_vars

\* C6 amended: when the gap-extraction call of an audit is rejected,
\* auditBusiness throws: the request produces no audit (the displayed audit
\* is left as it was), performAudit records the audit-failed error and
\* resets loading.audit, and the request issues no further call.
C6_FailedPhase2Propagates ==
    [][\A r \in Requests :
          AuditGapsRejected(r) =>
              /\ audit' = audit
              /\ auditFrom' = auditFrom
              /\ error' = [message |-> AUDIT_FAILED]
              /\ ~loading'.audit
              /\ r \notin DOMAIN reqs'
              /\ reqs[r].calls = 2]_vars

\* C6 happens: the latest audit ended with its research call resolved and
\* its gap-extraction call rejected
C6_Witness ==
    /\ outcome.audit = Ended("threw", <<"ok", "fail">>, 2)
    /\ selectedLead # Null
    /\ audit = Null
    /\ error = [message |-> AUDIT_FAILED]
    /\ ~loading.audit

\* the gap-extraction texts that hold no JSON array: no text, prose, a
\* bracketed span that is not JSON
UnparseableGapTexts == {<<>>, <<"x">>, <<"[", "x", "]">>}

\* C7: when the gap-extraction call resolves with a text that cannot be
\* parsed as a JSON array, auditBusiness returns an audit with gaps = [] and
\* does not throw.
C7_UnparseableGapsTolerated ==
    [][\A r \in Requests, gapsText \in UnparseableGapTexts :
          AuditGapsResolved(r, gapsText) =>
              /\ auditGaps(build, gapsText).ok
              /\ audit' # Null
              /\ audit'.gaps = JArr(<<>>)
              /\ auditFrom'.req = r]_vars

\* the discovery texts that hold no array of records: no text, prose, a
\* bracketed span that is not JSON, a JSON object
NoRecordTexts ==
    {<<>>, <<"x", "x">>, <<"x", "[", "x", "]">>, <<"{", "name", ":", "sA", "}">>}

\* C8: when the discovery call resolves, findLeads returns a list of leads
\* whatever the text, and the empty list for a text that holds no array of
\* records.
C8_FindLeadsNeverThrows ==
    [][\A r \in Requests, text \in LeadTexts :
          \A now \in ClockReadings(RawCount(build, text)) :
              FindLeadsResolved(r, text, now) =>
                  /\ findLeads(build, text, now).ok
                  /\ leads' = findLeads(build, text, now).leads
                  /\ text \in NoRecordTexts => leads' = <<>>]_vars

\* C9: when the discovery call is rejected, findLeads throws: performSearch
\* records an error, resets loading.leads and leaves the leads list as it
\* was (it is not replaced by the empty list).
C9_FailedDiscoveryDistinct ==
    [][\A r \in Requests, message \in ErrorMessages :
          FindLeadsRejected(r, message) =>
              /\ error' # Null
              /\ ~loading'.leads
              /\ leads' = leads
              /\ r \notin DOMAIN reqs'
              /\ latest.search = r => outcome'.search = Ended("threw", <<"fail">>, 1)]_vars

\* C9 happens: the latest search ended with its call rejected while leads
\* were listed
C9_Witness ==
    /\ outcome.search = Ended("threw", <<"fail">>, 1)
    /\ error # Null
    /\ ~loading.leads
    /\ Len(leads) > 0

\* C10: when the research call of an audit is rejected, auditBusiness
\* throws: the request has issued one call and issues no other, it produces
\* no audit, and performAudit records the audit-failed error.
C10_FailedPhase1FailsAudit ==
    [][\A r \in Requests :
          AuditResearchRejected(r) =>
              /\ reqs[r].calls = 1
              /\ r \notin DOMAIN reqs'
              /\ audit' = audit
              /\ auditFrom' = auditFrom
              /\ error' = [message |-> AUDIT_FAILED]
              /\ ~loading'.audit
              /\ latest.audit = r => outcome'.audit = Ended("threw", <<"fail">>, 1)]_vars

\* C10 happens: the latest audit ended with its research call rejected
C10_Witness ==
    /\ outcome.audit = Ended("threw", <<"fail">>, 1)
    /\ selectedLead # Null
    /\ audit = Null
    /\ error = [message |-> AUDIT_FAILED]
    /\ ~loading.audit

\* C11: every generatePitch call createPitch issues is made with the lead
\* selected at that moment and with an audit that was produced for that
\* same lead, and none is issued before an audit has completed.
C11_PitchFromSelectedPair ==
    [][latest'.pitch # latest.pitch =>
          /\ selectedLead # Null
          /\ audit # Null
          /\ auditFrom.req > 0
          /\ auditFrom.lead = selectedLead
          /\ latest'.pitch \in DOMAIN reqs' =>
                /\ reqs'[latest'.pitch].lead = selectedLead
                /\ reqs'[latest'.pitch].local.audit = audit]_vars

\* the bracketed spans of a text: from a "[" to a later "]", from a "{" to
\* a later "}"
BracketedSpans(text) ==
    {SubSeq(text, i, j) : <<i, j>> \in
        {ij \in (1..Len(text)) \X (1..Len(text)) :
            /\ ij[1] < ij[2]
            /\ \/ text[ij[1]] = "[" /\ text[ij[2]] = "]"
               \/ text[ij[1]] = "{" /\ text[ij[2]] = "}"}}

\* no JSON value can be extracted from the text: it has no bracketed span,
\* or none of its bracketed spans is valid JSON
NoJsonValue(text) == \A span \in BracketedSpans(text) : ~JSONParse(span).ok

\* the result of a call is a value (the call returned, it did not throw)
Returned(result) == "t" \in DOMAIN result

\* C12: coercion totality.  safeJsonParse(text, fallback) never throws, and
\* for every text from which no JSON value can be extracted (no bracketed
\* span at all, or no bracketed span that is valid JSON) it returns
\* fallback unchanged.
C12_CoercionTotality ==
    (Applied /\ call.fn = "safeJsonParse") =>
        /\ Returned(call.result)
        /\ NoJsonValue(call.text) => call.result = call.fallback

\* C12 happens: safeJsonParse has returned the fallback for a text whose
\* only bracketed span is not valid JSON
C12_Witness ==
    /\ Applied
    /\ call.fn = "safeJsonParse"
    /\ call.text = <<"x", "[", "x", "]">>
    /\ call.fallback = JNull
    /\ call.result = JNull

\* C13: coercion round trip.  safeJsonParse(JSON.stringify(x), fallback) = x
\* for every JSON array x and every JSON object x, nested arrays and
\* objects included, whatever the fallback.
C13_CoercionRoundTrip ==
    (Applied /\ call.fn = "safeJsonParse" /\ call.from.kind = "stringify") =>
        call.result = call.from.x

\* C14: fenced-block extraction.  When the text wraps a valid JSON value in
\* a json-tagged markdown fence, with prose before or after the fence,
\* safeJsonParse returns exactly the value inside the fence.
C14_FencedBlockExtraction ==
    (Applied /\ call.fn = "safeJsonParse" /\ call.from.kind = "fence") =>
        call.result = call.from.x

\* the tags of a result of identifyOpportunities, as a set
TagSet(tags) == {tags[i] : i \in 1..Len(tags)}

\* C15: classifier rules with exact boundaries.  The result of
\* identifyOpportunities(rating, reviews, hasWebsite) contains
\* LOW_REPUTATION iff rating < 4.0, UNDERVALUED iff rating > 4.5 and
\* reviews < 20, MISSING_INFO iff hasWebsite is false; the inequalities are
\* strict (ratings and review counts are in hundredths).
C15_ClassifierBoundaries ==
    (Applied /\ call.fn = "identifyOpportunities") =>
        /\ "LOW_REPUTATION" \in TagSet(call.result.tags) <=> call.rating.n < 400
        /\ "UNDERVALUED" \in TagSet(call.result.tags)
              <=> (call.rating.n > 450 /\ call.reviews.n < 2000)
        /\ "MISSING_INFO" \in TagSet(call.result.tags) <=> ~call.hasWebsite
        /\ call.rating.n = 400 => "LOW_REPUTATION" \notin TagSet(call.result.tags)
        /\ (call.rating.n = 450 \/ call.reviews.n = 2000)
              => "UNDERVALUED" \notin TagSet(call.result.tags)

\* C15 happens: a business rated exactly 4.0, with a website, has been
\* classified, and has no tag
C15_Witness ==
    /\ Applied
    /\ call.fn = "identifyOpportunities"
    /\ call.rating = JNum(400)
    /\ call.reviews = JNum(1900)
    /\ call.hasWebsite
    /\ call.result.tags = <<>>

\* the tags in their declared order
TagOrder == <<"LOW_REPUTATION", "UNDERVALUED", "MISSING_INFO">>

\* C16: stable tag order.  For every input the tags returned by
\* identifyOpportunities appear in the order LOW_REPUTATION, UNDERVALUED,
\* MISSING_INFO with no tag repeated; a business rated below 4.0 without a
\* website yields exactly [LOW_REPUTATION, MISSING_INFO].
C16_StableTagOrder ==
    (Applied /\ call.fn = "identifyOpportunities") =>
        /\ call.result.tags = SelectSeq(TagOrder, LAMBDA t : t \in TagSet(call.result.tags))
        /\ (call.rating.n < 400 /\ ~call.hasWebsite)
              => call.result.tags = <<"LOW_REPUTATION", "MISSING_INFO">>

\* C16 happens: a business rated 3.2 without a website has been classified
C16_Witness ==
    /\ Applied
    /\ call.fn = "identifyOpportunities"
    /\ call.rating = JNum(320)
    /\ ~call.hasWebsite
    /\ call.result.tags = <<"LOW_REPUTATION", "MISSING_INFO">>

\* findLeads has returned a list of leads
FoundLeads == Applied /\ call.fn = "findLeads" /\ call.result.ok

\* C17: for every lead findLeads returns, lead.opportunities is the
\* classifier applied to the lead's own stored fields:
\* identifyOpportunities(lead.rating, lead.reviews, lead.website is
\* present), also for a record without rating or reviews (stored as 0).
C17_OpportunitiesOfStoredFields ==
    FoundLeads =>
        \A i \in 1..Len(call.result.leads) :
            LET lead == call.result.leads[i]
            IN  lead.opportunities
                    = identifyOpportunities(lead.rating, lead.reviews, Truthy(lead.website))

\* C18: within one result set of findLeads no two leads have the same id,
\* for any number of records and any reading of the clock.
C18_UniqueIds ==
    FoundLeads =>
        \A i, j \in 1..Len(call.result.leads) :
            i # j => call.result.leads[i].id # call.result.leads[j].id

\* C18 happens: findLeads has returned more than DEFAULT_LEAD_COUNT leads
\* whose ids were all generated at the same reading of the clock
C18_Witness ==
    /\ FoundLeads
    /\ Len(call.result.leads) > DEFAULT_LEAD_COUNT
    /\ \A i \in 1..Len(call.now) : call.now[i] = call.now[1]

\* C19: the list findLeads returns never has more than 12 entries (the
\* configured lead count), however many records the response contains.
C19_AtMostLeadCount ==
    FoundLeads => Len(call.result.leads) <= DEFAULT_LEAD_COUNT

\* C20: generatePitch returns the text of the provider unchanged when it is
\* non-empty and the fixed fallback sentence when it is empty; a call that
\* succeeds never returns the empty string, so a displayed pitch is never
\* empty.
C20_PitchNeverEmpty ==
    /\ [](pitch # Null => pitch.text # "")
    /\ [][\A r \in Requests, text \in ProseTexts :
             PitchResolved(r, text) =>
                 /\ text # "" => pitch' = [text |-> text]
                 /\ text = "" => pitch' = [text |-> "Failed to generate pitch."]]_vars

\* C20 happens: the latest pitch call resolved with an empty text and the
\* fallback sentence is displayed
C20_Witness ==
    /\ outcome.pitch = Ended("returned", <<"ok">>, 1)
    /\ pitchFrom.req = latest.pitch
    /\ pitch = [text |-> "Failed to generate pitch."]

C22_AuditTransition ==
    [][\A lead \in AuditTargets :
          performAudit(lead) =>
              /\ selectedLead' = lead
              /\ audit' = Null
              /\ pitch' = Null
              /\ lastPitchConfig' = Null
              /\ error' = Null
              /\ loading'.audit
              /\ leads' = leads
              /\ loading'.leads = loading.leads
              /\ loading'.pitch = loading.pitch
              /\ latest'.audit \in DOMAIN reqs'
              /\ reqs'[latest'.audit].kind = "audit"
              /\ reqs'[latest'.audit].lead = lead
              /\ reqs'[latest'.audit].ai = <<>>]_vars

\* C22 happens: an audit is in flight that was requested while the pitch of
\* an earlier audit was displayed
C22_Witness ==
    /\ latest.audit \in InFlight
    /\ latest.pitch > 0
    /\ latest.audit > latest.pitch
    /\ outcome.pitch.how = "returned"
    /\ selectedLead = reqs[latest.audit].lead
    /\ audit = Null
    /\ pitch = Null
    /\ lastPitchConfig = Null
    /\ error = Null
    /\ loading.audit

\* C23: a stage stays in flight until its call resolves.  In every
\* reachable state, while the most recently issued audit call has neither
\* resolved nor failed loading.audit is true, and likewise loading.leads
\* for searches and loading.pitch for pitches.
C23_InFlightUntilSettled ==
    /\ outcome.audit.how = "pending" => loading.audit
    /\ outcome.search.how = "pending" => loading.leads
    /\ outcome.pitch.how = "pending" => loading.pitch

\* C24: loading flags come down.  When every issued AI call eventually
\* resolves or fails, each state in which loading.leads, loading.audit or
\* loading.pitch is true is eventually followed by a state in which that
\* flag is false.
C24_LoadingEnds ==
    /\ loading.leads ~> ~loading.leads
    /\ loading.audit ~> ~loading.audit
    /\ loading.pitch ~> ~loading.pitch

\* all three stages have run and ended, one of them by a rejected call, and
\* no flag is left raised
C24_Witness ==
    /\ outcome.search.how \in {"returned", "threw"}
    /\ outcome.audit.how = "returned"
    /\ outcome.pitch.how = "threw"
    /\ outcome.pitch.ai = <<"fail">>
    /\ InFlight = {}
    /\ ~loading.leads /\ ~loading.audit /\ ~loading.pitch

\* the hook state a failure leaves alone
FailureFrame ==
    /\ leads' = leads
    /\ selectedLead' = selectedLead
    /\ audit' = audit
    /\ pitch' = pitch
    /\ lastPitchConfig' = lastPitchConfig

C26_LatestSearchWins ==
    [][\A r \in Requests, text \in LeadTexts :
          \A now \in ClockReadings(RawCount(build, text)) :
              FindLeadsResolved(r, text, now) =>
                  /\ (r # latest.search /\ outcome.search.how = "returned") => leads' = leads
                  /\ (r = latest.search /\ findLeads(build, text, now).ok)
                        => leads' = findLeads(build, text, now).leads]_vars

\* the positions at which an array or object literal starts: a bracketed
\* span from there is valid JSON
LiteralStarts(text) ==
    {i \in 1..Len(text) :
        \E j \in (i + 1)..Len(text) :
            /\ SubSeq(text, i, j) \in BracketedSpans(text)
            /\ JSONParse(SubSeq(text, i, j)).ok}

\* the first array or object literal of the text (two literals cannot start
\* at the same position: a literal followed by more text is not JSON)
FirstLiteral(text) ==
    LET i == CHOOSE k \in LiteralStarts(text) : \A m \in LiteralStarts(text) : k <= m
        j == CHOOSE k \in (i + 1)..Len(text) :
                /\ SubSeq(text, i, k) \in BracketedSpans(text)
                /\ JSONParse(SubSeq(text, i, k)).ok
    IN  SubSeq(text, i, j)

\* C27: the first literal that parses is returned.  When the text holds
\* several array or object literals, safeJsonParse returns the value of the
\* first one that parses, not the fallback.
C27_FirstParsableLiteral ==
    (/\ Applied
     /\ call.fn = "safeJsonParse"
     /\ call.from.kind = "text"
     /\ Cardinality(LiteralStarts(call.text)) > 1)
        => call.result = JSONParse(FirstLiteral(call.text)).val

\* the AI calls a run of the service function behind request q has issued
\* when it ends
Protocol(q) ==
    CASE q.kind = "search" -> q.sent = <<AICall({"googleMaps"}, FALSE, [lead |-> Null])>>
      [] q.kind = "pitch" -> q.sent = <<AICall({}, FALSE, [lead |-> q.lead])>>
      [] q.kind = "audit" ->
            IF q.ai = <<>>
            THEN q.sent = <<AICall({"googleSearch"}, FALSE, [lead |-> q.lead])>>
            ELSE /\ q.ai = <<"ok">>
                 /\ q.sent = <<AICall({"googleSearch"}, FALSE, [lead |-> q.lead]),
                               AICall({}, TRUE, [text |-> q.local.content])>>

\* C28: the call protocol.  A run of auditBusiness issues the research call
\* with the web-search tool and then, only once that call has resolved
\* successfully, the gap-extraction call with a response schema, no tools
\* and a prompt built from the research text: two calls in this order, and
\* one when the research call fails.  A run of findLeads issues one call
\* with the map tool, a run of generatePitch, once it has built its prompt,
\* one call with no tools.  No run issues any other call.
C28_CallProtocol ==
    [][\A r \in Requests :
          /\ (r \in InFlight /\ Resumed(r)) => Protocol(reqs[r])
          /\ r \in DOMAIN reqs' =>
                /\ Len(reqs'[r].sent) = Len(reqs'[r].ai) + 1
                /\ Len(reqs'[r].sent) = reqs'[r].calls
                /\ \A i \in 1..Len(reqs'[r].ai) : reqs'[r].ai[i] = "ok"]_vars

\* a search, an audit and a pitch have each run to their end: one call, two
\* calls, one call, every one of them resolved
C28_Witness ==
    /\ InFlight = {}
    /\ outcome.search = Ended("returned", <<"ok">>, 1)
    /\ outcome.audit = Ended("returned", <<"ok", "ok">>, 2)
    /\ outcome.pitch = Ended("returned", <<"ok">>, 1)

\* the framing blocks a prompt embeds
Framings(prompt) ==
    {prompt[i] : i \in 1..Len(prompt)} \cap {WEBSITE_FRAMING, AUTOMATION_FRAMING}

\* C29: one framing per pitch.  For every focus value the prompt of
\* generatePitch embeds exactly one of the two framings: the website
\* framing when the focus is 'website', the automation framing when it is
\* 'automation' (and for any other value); never both and never neither.
C29_OneFraming ==
    (Applied /\ call.fn = "pitchPrompt") =>
        /\ Cardinality(Framings(call.result.prompt)) = 1
        /\ call.pitchFocus = "website" => Framings(call.result.prompt) = {WEBSITE_FRAMING}
        /\ call.pitchFocus # "website" => Framings(call.result.prompt) = {AUTOMATION_FRAMING}

\* a prompt was built for a focus that is neither of the two button values
\* and carries the automation framing alone
C29_Witness ==
    /\ Applied
    /\ call.fn = "pitchPrompt"
    /\ call.pitchFocus \notin {"website", "automation"}
    /\ Framings(call.result.prompt) = {AUTOMATION_FRAMING}

\* the raw record has no such key
Lacks(item, key) == item.t # "obj" \/ key \notin DOMAIN item.o

\* C30: one lead per raw record.  findLeads returns exactly one lead for
\* each record of the parsed response, in the order of the records, with
\* rating and reviews set to 0 when the record lacks them and website
\* passed through unchanged: absent stays absent.
C30_OneLeadPerRecord ==
    FoundLeads =>
        LET rawData == rawLeadData(build, call.text).val.a
            result == call.result.leads
        IN  /\ Len(result) = Len(rawData)
            /\ \A i \in 1..Len(rawData) :
                    /\ result[i].name = Prop(rawData[i], "name")
                    /\ result[i].address = Prop(rawData[i], "address")
                    /\ Lacks(rawData[i], "rating") => result[i].rating = JNum(0)
                    /\ Lacks(rawData[i], "reviews") => result[i].reviews = JNum(0)
                    /\ ~Lacks(rawData[i], "website")
                            => result[i].website = rawData[i].o["website"]
                    /\ Lacks(rawData[i], "website") => result[i].website = Undefined

\* findLeads has returned two leads in the order of their records: the
\* first from a record with a name alone, the second from a complete record
C30_Witness ==
    /\ FoundLeads
    /\ call.text = ArrayText(<<<<"{", "name", ":", "sB", "}">>,
                               <<"{", "name", ":", "sA", ",", "rating", ":", "3.2", ",",
                                 "reviews", ":", "40", ",", "website", ":", "sUrl", "}">>>>)
    /\ Len(call.result.leads) = 2
    /\ call.result.leads[1].rating = JNum(0)
    /\ call.result.leads[1].reviews = JNum(0)
    /\ call.result.leads[1].website = Undefined
    /\ call.result.leads[2].rating = JNum(320)
    /\ call.result.leads[2].website # Undefined
    /\ call.result.leads[1].name # call.result.leads[2].name

\* the positions of the chunks that carry web data
WebChunks(list) == {i \in 1..Len(list) : list[i].web # Null}

\* the position of the k-th chunk that carries web data
WebChunkAt(list, k) ==
    CHOOSE i \in WebChunks(list) : Cardinality({j \in WebChunks(list) : j < i}) = k - 1

\* C31: sources from citations.  Without citation metadata the sources are
\* the empty list.  Otherwise there is exactly one source per grounding
\* chunk that carries web data, in the order of the chunks, with the title
\* and uri of the chunk, a missing one replaced by a non-empty placeholder.
C31_SourcesFromCitations ==
    (Applied /\ call.fn = "auditSources") =>
        LET sources == call.result.sources
        IN  IF call.chunks = NoChunks THEN sources = <<>>
            ELSE /\ Len(sources) = Cardinality(WebChunks(call.chunks.list))
                 /\ \A k \in 1..Len(sources) :
                        LET web == call.chunks.list[WebChunkAt(call.chunks.list, k)].web
                        IN  /\ sources[k].title # ""
                            /\ sources[k].uri # ""
                            /\ web.title # "" => sources[k].title = web.title
                            /\ web.uri # "" => sources[k].uri = web.uri

\* sources were computed from three chunks, the second without web data and
\* the third without a title: two sources, the second with a placeholder
C31_Witness ==
    /\ Applied
    /\ call.fn = "auditSources"
    /\ call.chunks = [list |-> <<[web |-> [title |-> "Title", uri |-> "uri"]],
                                 [web |-> Null],
                                 [web |-> [title |-> "", uri |-> "uri"]]>>]
    /\ Len(call.result.sources) = 2
    /\ call.result.sources[1] = [title |-> "Title", uri |-> "uri"]
    /\ call.result.sources[2].title # ""

\* C32: the failure of a superseded audit is not surfaced.  Once the audit
\* issued last has succeeded and its result is displayed with no error, an
\* older overlapping audit whose call fails leaves the error null.
C32_SupersededFailureSilent ==
    [][\A r \in Requests :
          (/\ r # latest.audit
           /\ outcome.audit.how = "returned"
           /\ audit # Null
           /\ error = Null
           /\ AuditResearchRejected(r) \/ AuditGapsRejected(r))
              => error' = Null]_vars

\* C33: forward dependency of the displayed state.  In every reachable
\* state no audit and no pitch is displayed without a selected lead, and no
\* pitch without an audit.
C33_ForwardDependency ==
    /\ selectedLead = Null => (audit = Null /\ pitch = Null)
    /\ audit = Null => pitch = Null

\* C34: a displayed pitch can be regenerated.  Whenever a pitch is
\* displayed the stored pitch configuration is not null, so regeneratePitch
\* does not fall through its guard.
C34_PitchHasConfig == pitch # Null => lastPitchConfig # Null

\* nothing of the hook changes and no AI call is issued
NoOp == UNCHANGED <<leads, selectedLead, audit, pitch, loading, error, lastPitchConfig, reqs,
                    issued>>

\* C35: guarded operations are no-ops.  performSearch with an empty niche
\* or city, createPitch without a selected lead or without an audit, and
\* regeneratePitch without a stored pitch configuration change no state
\* variable and issue no AI call.
C35_GuardedNoOps ==
    [][/\ \A search \in Searches :
            (performSearch(search) /\ (search.niche = "" \/ search.city = "")) => NoOp
       /\ \A focus \in PitchFocuses, tone \in PitchTones, length \in PitchLengths :
            (createPitch(focus, tone, length) /\ (selectedLead = Null \/ audit = Null)) => NoOp
       /\ (regeneratePitch /\ lastPitchConfig = Null) => NoOp]_vars

\* a state in which the guards of createPitch and regeneratePitch apply
\* with work in progress: a lead is selected and its audit is still
\* pending, so there is no audit and no stored pitch configuration
C35_Witness ==
    /\ selectedLead # Null
    /\ audit = Null
    /\ lastPitchConfig = Null
    /\ loading.audit
    /\ latest.audit \in InFlight
    /\ ENABLED (regeneratePitch /\ NoOp)

\* the loading flag of a stage
StageFlag(kind) ==
    CASE kind = "search" -> "leads"
      [] kind = "audit" -> "audit"
      [] kind = "pitch" -> "pitch"

\* the step changes no loading flag but the given one
OnlyFlag(flag) == \A other \in {"leads", "audit", "pitch"} \ {flag} : loading'[other] = loading[other]

\* C36: loading flags are independent per stage.  Starting a search, an
\* audit or a pitch, and the end of one, however it ends, changes no
\* loading flag but the flag of its own stage; an audit moving from its
\* first call to its second changes none.
C36_IndependentFlags ==
    [][/\ (\E search \in Searches : performSearch(search)) => OnlyFlag("leads")
       /\ (\E lead \in AuditTargets : performAudit(lead)) => OnlyFlag("audit")
       /\ (\/ regeneratePitch
           \/ \E focus \in PitchFocuses, tone \in PitchTones, length \in PitchLengths :
                createPitch(focus, tone, length)) => OnlyFlag("pitch")
       /\ \A r \in Requests :
            /\ (r \in InFlight /\ Resumed(r)) => OnlyFlag(StageFlag(reqs[r].kind))
            /\ (r \in InFlight /\ r \in DOMAIN reqs' /\ reqs'[r] # reqs[r])
                    => loading' = loading]_vars

\* a search issued during an audit has finished: its own flag is down and
\* the flag of the audit, still in flight, is up
C36_Witness ==
    /\ latest.audit \in InFlight
    /\ latest.search > latest.audit
    /\ outcome.search.how \in {"returned", "threw"}
    /\ ~loading.leads
    /\ loading.audit

====
